---- MODULE Spec2Model ----
(***************************************************************************)
(* Token propagation of netpoe/facebook-challenge-2020.                    *)
(*                                                                         *)
(* AuthTokenModel (a container singleton) holds the scalar authToken and a *)
(* BehaviorSubject seeded with it.  App subscribes in a useEffect and      *)
(* unsubscribes in its cleanup; SignInScreen.onSubmit awaits execute(),    *)
(* which pushes the endpoint's token into the subject; the authLink of     *)
(* GraphQL reads authToken at dispatch time and spreads an Authorization   *)
(* header into the operation's context.                                    *)
(*                                                                         *)
(* JavaScript is single threaded: every handler runs to completion, an     *)
(* `await` suspends the async function and its continuation is a           *)
(* microtask; microtasks run first-in first-out and drain before the next  *)
(* task (render, effect, click, dispatch) starts.                          *)
(***************************************************************************)
EXTENDS Integers, Sequences, FiniteSets, TLC

\* ------------------------------------------------------------------ bounds
MaxSubs == 2        \* subscriptions ever created
MaxCalls == 2       \* execute() calls ever started

\* ------------------------------------------------------- environment inputs
\* What the sign-in endpoint may answer: a bearer token, or a failure.
Tokens == {"T1", "T2"}
Causes == {"NetworkError"}
Outcomes ==
    {[ok |-> TRUE, token |-> t, cause |-> ""] : t \in Tokens}
        \cup {[ok |-> FALSE, token |-> "", cause |-> c] : c \in Causes}

NoOutcome == [ok |-> FALSE, token |-> "", cause |-> ""]
NoError == [name |-> "", cause |-> ""]

\* A headers object: a function from header names to values.
EmptyHeaders == [k \in {} |-> ""]

\* The context of an operation handed to the link chain: `headers` may be
\* undefined (hasHeaders = FALSE).
Contexts ==
    { [hasHeaders |-> FALSE, headers |-> EmptyHeaders],
      [hasHeaders |-> TRUE,
       headers |-> ("Accept" :> "json" @@ "Authorization" :> "Basic old")] }

NoOperation == [dispatched |-> FALSE, hasHeaders |-> FALSE, headers |-> EmptyHeaders]
NotForwarded == [forwarded |-> FALSE, headers |-> EmptyHeaders]
NotSent == [sent |-> FALSE, headers |-> EmptyHeaders, via |-> <<>>]

\* -------------------------------------------------------------------- state
VARIABLES
    authToken,      \* AuthTokenModel.authToken
    subjectValue,   \* the BehaviorSubject's current value
    observers,      \* the subject's observer list, in registration order
    subs,           \* every Subscription ever returned by subscribe(): its
                    \* holder, closed flag, and the tokens its callback logged
    pushed,         \* every value passed to observable.next, in order
    app,            \* the App component: lifecycle state and its subscription
    calls,          \* every execute() call started by onSubmit
    resolved,       \* the calls whose endpoint promise settled, in that order
    microtasks,     \* continuations of settled awaits, first-in first-out
    operation,      \* the context of the last operation handed to authLink
    forwarded,      \* the context authLink passed on to forward(operation)
    sent            \* the last request HttpLink handed to the transport

vars == <<authToken, subjectValue, observers, subs, pushed, app, calls,
          resolved, microtasks, operation, forwarded, sent>>

\* ------------------------------------------------------------------ helpers
SubIds == 1 .. Len(subs)
CallIds == 1 .. Len(calls)

Range(s) == {s[i] : i \in 1 .. Len(s)}

\* Array.prototype.indexOf, 1-based; 0 stands for JavaScript's -1.
IndexOf(s, x) ==
    IF x \in Range(s) THEN CHOOSE i \in 1 .. Len(s) : s[i] = x /\ \A j \in 1 .. i - 1 : s[j] # x
    ELSE 0

\* Array.prototype.splice(i, 1) for a valid index i.
Splice(s, i) == SubSeq(s, 1, i - 1) \o SubSeq(s, i + 1, Len(s))

\* The object spread {...a, ...b}: the keys of both, b's value where both
\* have the key.
Spread(a, b) ==
    [k \in DOMAIN a \cup DOMAIN b |-> IF k \in DOMAIN b THEN b[k] ELSE a[k]]

\* Boolean(s) of a string: only the empty string is falsy.
Truthy(s) == s # ""

\* ------------------------------------------------------------ BehaviorSubject
\* Mutant of Notify: the subject drops a value equal to the one an observer
\* received last (distinctUntilChanged).
NotifyDistinct(ss, obs, v) ==
    [s \in DOMAIN ss |->
        IF s \in Range(obs) /\ ss[s].received # <<>>
              /\ ss[s].received[Len(ss[s].received)] # v
        THEN [ss[s] EXCEPT !.received = Append(@, v)] ELSE ss[s]]

\* Subject.next delivers v to a copy of the observer list, in order; the
\* callback of AuthTokenModel.subscribe logs the token (kept in `received`).
Notify(ss, obs, v) ==
    [s \in DOMAIN ss |->
        IF s \in Range(obs) THEN [ss[s] EXCEPT !.received = Append(@, v)] ELSE ss[s]]

\* Mutant of next: a value equal to the subject's current value is dropped
\* (distinctUntilChanged in front of the subject).
nextDistinctUntilChanged(v) ==
    IF v = subjectValue
    THEN UNCHANGED <<subjectValue, pushed, subs, authToken, observers>>
    ELSE /\ subjectValue' = v
         /\ pushed' = Append(pushed, v)
         /\ subs' = Notify(subs, observers, v)
         /\ authToken' = IF observers # <<>> THEN v ELSE authToken
         /\ UNCHANGED observers

\* Mutant of next: the model writes authToken itself at every push, observed
\* or not.
nextWritesAuthToken(v) ==
    /\ subjectValue' = v
    /\ pushed' = Append(pushed, v)
    /\ subs' = Notify(subs, observers, v)
    /\ authToken' = v
    /\ UNCHANGED observers

\* observable.next(v): the subject's value is replaced, then every observer's
\* callback runs, each writing authToken = v.
next(v) ==
    /\ subjectValue' = v
    /\ pushed' = Append(pushed, v)
    /\ subs' = Notify(subs, observers, v)
    /\ authToken' = IF observers # <<>> THEN v ELSE authToken
    /\ UNCHANGED observers

\* Mutant of subscribe: a plain Subject, which replays nothing on subscribe.
subscribeNoReplay(owner) ==
    /\ observers' = Append(observers, Len(subs) + 1)
    /\ subs' = Append(subs, [owner |-> owner, closed |-> FALSE, again |-> FALSE,
                             from |-> Len(pushed), received |-> <<>>])
    /\ UNCHANGED <<authToken, subjectValue, pushed>>

\* AuthTokenModel.subscribe(): the observer is registered and its callback is
\* invoked at once with the subject's current value.
subscribe(owner) ==
    /\ observers' = Append(observers, Len(subs) + 1)
    /\ subs' = Append(subs, [owner |-> owner, closed |-> FALSE, again |-> FALSE,
                             from |-> Len(pushed), received |-> <<subjectValue>>])
    /\ authToken' = subjectValue
    /\ UNCHANGED <<subjectValue, pushed>>

\* Mutant of unsubscribe: the subscription is marked closed but its observer
\* stays in the subject's list.
unsubscribeKeepsObserver(s) ==
    /\ subs' = IF subs[s].closed
               THEN [subs EXCEPT ![s].again = TRUE]
               ELSE [subs EXCEPT ![s].closed = TRUE, ![s].from = 0,
                                 ![s].received = <<>>]
    /\ UNCHANGED <<observers, authToken, subjectValue, pushed>>

\* Mutant of unsubscribe: no closed check and no check of indexOf's -1, so
\* that observers.splice(-1, 1) removes the last observer.
unsubscribeNaive(s) ==
    /\ subs' = IF subs[s].closed
               THEN [subs EXCEPT ![s].again = TRUE]
               ELSE [subs EXCEPT ![s].closed = TRUE, ![s].from = 0,
                                 ![s].received = <<>>]
    /\ observers' =
          IF IndexOf(observers, s) = 0
          THEN SubSeq(observers, 1, Len(observers) - 1)
          ELSE Splice(observers, IndexOf(observers, s))
    /\ UNCHANGED <<authToken, subjectValue, pushed>>

\* Subscription.unsubscribe(): a closed subscription returns at once; else it
\* is closed and its observer is spliced out of the subject's list.  `again`
\* records that the handle was released while already closed.  What the
\* callback logged while subscribed is forgotten at the release, so `received`
\* of a closed subscription lists the invocations made after its release.
unsubscribe(s) ==
    /\ subs' = IF subs[s].closed
               THEN [subs EXCEPT ![s].again = TRUE]
               ELSE [subs EXCEPT ![s].closed = TRUE, ![s].from = 0,
                                 ![s].received = <<>>]
    /\ observers' =
          IF subs[s].closed \/ IndexOf(observers, s) = 0 THEN observers
          ELSE Splice(observers, IndexOf(observers, s))
    /\ UNCHANGED <<authToken, subjectValue, pushed>>

\* ---------------------------------------------------------------------- App
\* App renders its tree: GraphQL builds the client with the authLink and
\* SignInScreen shows the button.  The effect has not run yet.
Render ==
    /\ app.state = "Unmounted"
    /\ microtasks = <<>>
    /\ Len(subs) < MaxSubs
    /\ app' = [app EXCEPT !.state = "Rendered"]
    /\ UNCHANGED <<authToken, subjectValue, observers, subs, pushed, calls,
                   resolved, microtasks, operation, forwarded, sent>>

\* React.useEffect body: const subscription = authTokenModel.subscribe().
AppEffect ==
    /\ app.state = "Rendered"
    /\ microtasks = <<>>
    /\ Len(subs) < MaxSubs
    /\ subscribe("App")
    /\ app' = [state |-> "Active", sub |-> Len(subs) + 1]
    /\ UNCHANGED <<calls, resolved, microtasks, operation, forwarded, sent>>

\* Mutant of AppCleanup: the effect returns no cleanup, so an unmount leaves
\* the subscription registered.
AppCleanupLeaks ==
    /\ app.state = "Active"
    /\ microtasks = <<>>
    /\ app' = [state |-> "Unmounted", sub |-> 0]
    /\ UNCHANGED <<authToken, subjectValue, observers, subs, pushed, calls,
                   resolved, microtasks, operation, forwarded, sent>>

\* The effect's cleanup, run when App unmounts: subscription.unsubscribe().
AppCleanup ==
    /\ app.state = "Active"
    /\ microtasks = <<>>
    /\ unsubscribe(app.sub)
    /\ app' = [state |-> "Unmounted", sub |-> 0]
    /\ UNCHANGED <<calls, resolved, microtasks, operation, forwarded, sent>>

\* ----------------------------------------- other holders of the singleton
\* container.get(AuthTokenModel.type) hands the same instance to any caller;
\* subscribe() is public and the handle it returns may be released by its
\* holder any number of times.
CallerSubscribe ==
    /\ microtasks = <<>>
    /\ Len(subs) < MaxSubs
    /\ subscribe("caller")
    /\ UNCHANGED <<app, calls, resolved, microtasks, operation, forwarded, sent>>

CallerUnsubscribe(s) ==
    /\ microtasks = <<>>
    /\ subs[s].owner = "caller"
    /\ unsubscribe(s)
    /\ UNCHANGED <<app, calls, resolved, microtasks, operation, forwarded, sent>>

\* --------------------------------------------------------------- sign-in
\* SignInScreen.onSubmit (a click on the button): execute() is called and
\* suspends at its await of the sign-in endpoint.
onSubmit ==
    /\ app.state = "Active"
    /\ microtasks = <<>>
    /\ Len(calls) < MaxCalls
    /\ calls' = Append(calls, [state |-> "awaiting", outcome |-> NoOutcome,
                               error |-> NoError, caught |-> NoError])
    /\ UNCHANGED <<authToken, subjectValue, observers, subs, pushed, app,
                   resolved, microtasks, operation, forwarded, sent>>

\* Mutant of callServerSignInEndpoint: the result settles but no continuation
\* is scheduled (the awaited promise is never resolved).
callServerSignInEndpointHangs(c, o) ==
    /\ calls[c].state = "awaiting"
    /\ calls' = [calls EXCEPT ![c].state = "queued", ![c].outcome = o]
    /\ resolved' = Append(resolved, c)
    /\ UNCHANGED <<authToken, subjectValue, observers, subs, pushed, app,
                   microtasks, operation, forwarded, sent>>

\* The awaited endpoint result settles: the continuation of execute() is
\* queued as a microtask.  Several results may settle within one task, so
\* this step is not held back by continuations already queued.
callServerSignInEndpoint(c, o) ==
    /\ calls[c].state = "awaiting"
    /\ calls' = [calls EXCEPT ![c].state = "queued", ![c].outcome = o]
    /\ resolved' = Append(resolved, c)
    /\ microtasks' = Append(microtasks, c)
    /\ UNCHANGED <<authToken, subjectValue, observers, subs, pushed, app,
                   operation, forwarded, sent>>

\* Mutant of execute: a failed sign-in is swallowed and signs the user out by
\* pushing the empty token.
executeClearsOnFailure(c) ==
    /\ calls[c].state = "queued"
    /\ IF calls[c].outcome.ok
       THEN /\ next(calls[c].outcome.token)
            /\ calls' = [calls EXCEPT ![c].state = "fulfilled"]
       ELSE /\ next("")
            /\ calls' = [calls EXCEPT ![c].state = "rejected"]

\* Mutant of execute: a failure is caught inside execute and its message is
\* pushed as if it were the token.
executePushesCause(c) ==
    /\ calls[c].state = "queued"
    /\ next(IF calls[c].outcome.ok THEN calls[c].outcome.token ELSE calls[c].outcome.cause)
    /\ calls' = [calls EXCEPT ![c].state = "fulfilled"]

\* The continuation of execute() after its await.  A token is pushed with
\* observable.next and the promise fulfils; a rejection is thrown out of the
\* await, so the promise of execute() rejects with that same reason, which the
\* catch block of onSubmit receives.
execute(c) ==
    /\ calls[c].state = "queued"
    /\ IF calls[c].outcome.ok
       THEN /\ next(calls[c].outcome.token)
            /\ calls' = [calls EXCEPT ![c].state = "fulfilled"]
       ELSE /\ calls' = [calls EXCEPT
                            ![c].state = "rejected",
                            ![c].error = [name |-> calls[c].outcome.cause, cause |-> ""],
                            ![c].caught = [name |-> calls[c].outcome.cause, cause |-> ""]]
            /\ UNCHANGED <<authToken, subjectValue, observers, subs, pushed>>

\* The microtask queue is first-in first-out.
NextMicrotask == Head(microtasks)

RunMicrotask ==
    /\ microtasks # <<>>
    /\ execute(NextMicrotask)
    /\ microtasks' = Splice(microtasks, IndexOf(microtasks, NextMicrotask))
    /\ UNCHANGED <<app, resolved, operation, forwarded, sent>>

\* -------------------------------------------------------------- authLink
\* Mutant of authHeaders: the Boolean(authToken) test is missing.
authHeadersAlways(token) == "Authorization" :> ("Bearer " \o token)

\* authHeaders: an Authorization entry when the token is truthy, else {}.
authHeaders(token) ==
    IF Truthy(token) THEN ("Authorization" :> ("Bearer " \o token)) ELSE EmptyHeaders

\* Mutant of setContext: the spreads are swapped, {...authHeaders, ...headers}.
setContextHeadersWin(ctx, token) ==
    Spread(authHeaders(token), IF ctx.hasHeaders THEN ctx.headers ELSE EmptyHeaders)

\* operation.setContext(({ headers = {} }) => ({ headers: {...headers, ...authHeaders} }))
setContext(ctx, token) ==
    Spread(IF ctx.hasHeaders THEN ctx.headers ELSE EmptyHeaders, authHeaders(token))

\* Mutant of Links: the terminating link is put first, from([httpLink, authLink]).
LinksHttpFirst == <<"httpLink", "authLink">>

\* The link chain of the client, from([authLink, httpLink]).
Links == <<"authLink", "httpLink">>

\* HttpLink, the terminating link: the request goes to the transport with the
\* headers of the operation's context.  `via` lists the links the operation
\* passed through before.
httpLink(headers, via) ==
    sent' = [sent |-> TRUE, headers |-> headers, via |-> via]

\* forward(operation) called by the link at position i of the chain: the next
\* link handles the operation; behind the last link there is nothing to call.
forward(i, headers, via) ==
    IF i < Len(Links) /\ Links[i + 1] = "httpLink"
    THEN httpLink(headers, via)
    ELSE UNCHANGED sent

\* Mutant of authLink: the Authorization entry computed for the first
\* operation is kept and reused for every later one.
authLinkCachesHeader(ctx) ==
    LET cached ==
            IF ~forwarded.forwarded THEN authHeaders(authToken)
            ELSE IF /\ "Authorization" \in DOMAIN forwarded.headers
                    /\ forwarded.headers["Authorization"] \in {"Bearer " \o t : t \in Tokens}
                 THEN "Authorization" :> forwarded.headers["Authorization"]
                 ELSE EmptyHeaders
        headers == Spread(IF ctx.hasHeaders THEN ctx.headers ELSE EmptyHeaders, cached)
    IN  /\ app.state \in {"Rendered", "Active"}
        /\ microtasks = <<>>
        /\ operation' = [dispatched |-> TRUE, hasHeaders |-> ctx.hasHeaders,
                         headers |-> ctx.headers]
        /\ forwarded' = [forwarded |-> TRUE, headers |-> headers]
        /\ forward(IndexOf(Links, "authLink"), headers, <<"authLink">>)
        /\ UNCHANGED <<authToken, subjectValue, observers, subs, pushed, app, calls,
                       resolved, microtasks>>

\* Mutant of authLink: the handler refreshes authToken from the subject's
\* value before it reads it.
authLinkRefreshesToken(ctx) ==
    /\ app.state \in {"Rendered", "Active"}
    /\ microtasks = <<>>
    /\ authToken' = subjectValue
    /\ operation' = [dispatched |-> TRUE, hasHeaders |-> ctx.hasHeaders,
                     headers |-> ctx.headers]
    /\ forwarded' = [forwarded |-> TRUE, headers |-> setContext(ctx, subjectValue)]
    /\ forward(IndexOf(Links, "authLink"), setContext(ctx, subjectValue), <<"authLink">>)
    /\ UNCHANGED <<subjectValue, observers, subs, pushed, app, calls,
                   resolved, microtasks>>

\* The link handler, run once for each operation the client dispatches:
\* read authToken, set the context, forward the operation to the HttpLink.
authLink(ctx) ==
    /\ app.state \in {"Rendered", "Active"}
    /\ microtasks = <<>>
    /\ operation' = [dispatched |-> TRUE, hasHeaders |-> ctx.hasHeaders,
                     headers |-> ctx.headers]
    /\ forwarded' = [forwarded |-> TRUE, headers |-> setContext(ctx, authToken)]
    /\ forward(IndexOf(Links, "authLink"), setContext(ctx, authToken), <<"authLink">>)
    /\ UNCHANGED <<authToken, subjectValue, observers, subs, pushed, app, calls,
                   resolved, microtasks>>

\* The client hands an operation to the first link of its chain.
request(ctx) ==
    IF Links[1] = "authLink"
    THEN authLink(ctx)
    ELSE /\ app.state \in {"Rendered", "Active"}
         /\ microtasks = <<>>
         /\ operation' = [dispatched |-> TRUE, hasHeaders |-> ctx.hasHeaders,
                          headers |-> ctx.headers]
         /\ httpLink(IF ctx.hasHeaders THEN ctx.headers ELSE EmptyHeaders, <<>>)
         /\ UNCHANGED <<authToken, subjectValue, observers, subs, pushed, app,
                        calls, resolved, microtasks, forwarded>>

\* ------------------------------------------------------------ specification
Init ==
    /\ authToken = ""
    /\ subjectValue = authToken
    /\ observers = <<>>
    /\ subs = <<>>
    /\ pushed = <<>>
    /\ app = [state |-> "Unmounted", sub |-> 0]
    /\ calls = <<>>
    /\ resolved = <<>>
    /\ microtasks = <<>>
    /\ operation = NoOperation
    /\ forwarded = NotForwarded
    /\ sent = NotSent

Next ==
    \/ Render
    \/ AppEffect
    \/ AppCleanup
    \/ CallerSubscribe
    \/ \E s \in SubIds : CallerUnsubscribe(s)
    \/ onSubmit
    \/ \E c \in CallIds : \E o \in Outcomes : callServerSignInEndpoint(c, o)
    \/ RunMicrotask
    \/ \E ctx \in Contexts : request(ctx)

Spec == Init /\ [][Next]_vars

\* The event loop always drains the microtask queue: a queued continuation
\* is run.
FairSpec == Spec /\ WF_vars(RunMicrotask)

\* ------------------------------------------------------------------ claims
\* The execute() calls that have completed (fulfilled or rejected), in the
\* order their endpoint results settled.
Completed == SelectSeq(resolved, LAMBDA c : calls[c].state \in {"fulfilled", "rejected"})

\* The call that completed last did so successfully.
LastCompletedOk ==
    /\ Completed # <<>>
    /\ calls[Completed[Len(Completed)]].state = "fulfilled"

LastCompletedToken == calls[Completed[Len(Completed)]].outcome.token

\* The headers object the link handler sees: the operation's, or {}.
HeadersOf(op) == IF op.hasHeaders THEN op.headers ELSE EmptyHeaders

Dispatching == \E ctx \in Contexts : authLink(ctx)

\* C1: once an execute() has completed successfully with token T and no later
\* execute has completed, a request dispatched through the auth link carries
\* Authorization = "Bearer T", whatever mounts and unmounts of App occurred.
C1_DispatchCarriesLatestToken ==
    [][(Dispatching /\ LastCompletedOk) =>
          /\ "Authorization" \in DOMAIN forwarded'.headers
          /\ forwarded'.headers["Authorization"] = "Bearer " \o LastCompletedToken]_vars

\* C2: in every reachable state authToken equals the value most recently
\* pushed into the BehaviorSubject, or the empty seed if nothing was pushed,
\* also while no subscription is active.
C2_AuthTokenIsLastPushed ==
    authToken = IF pushed = <<>> THEN "" ELSE pushed[Len(pushed)]

\* C3: an observer that stays subscribed is invoked, after its subscribe-time
\* invocation, with exactly the values pushed since it subscribed, in the
\* order they were pushed: none lost, duplicated or reordered.
C3_ObserverReceivesPushesInOrder ==
    \A s \in SubIds :
        ~subs[s].closed =>
            /\ subs[s].received # <<>>
            /\ Tail(subs[s].received) = SubSeq(pushed, subs[s].from + 1, Len(pushed))

\* Two observers are subscribed and one of them has received two different
\* tokens after its subscribe-time invocation.
C3_Witness ==
    /\ Len(observers) = 2
    /\ \E s \in SubIds :
          /\ ~subs[s].closed
          /\ Len(subs[s].received) = 3
          /\ subs[s].received[2] # subs[s].received[3]

\* C4: every subscribe() invokes the observer's callback exactly once with the
\* subject's current value before it returns (the empty string when nothing
\* was ever pushed), so authToken equals that value right after subscribe().
C4_SubscribeDeliversCurrentValue ==
    [][Len(subs') > Len(subs) =>
          /\ subs'[Len(subs')].received = <<subjectValue>>
          /\ authToken' = subjectValue
          /\ subjectValue' = subjectValue
          /\ (pushed = <<>> => subs'[Len(subs')].received = <<"">>)]_vars

\* One subscription was made before any push and got the empty seed; another
\* was made after a push and got the pushed token.
C4_Witness ==
    /\ \E s \in SubIds : ~subs[s].closed /\ subs[s].from = 0 /\ subs[s].received[1] = ""
    /\ \E s \in SubIds :
          ~subs[s].closed /\ subs[s].from > 0 /\ subs[s].received[1] \in Tokens

\* C5: a released subscription is out of the observer list and its callback
\* is never invoked again, also by the push of an execute() that was in
\* flight at the release; with every subscription released, a push does not
\* write authToken.
C5_ReleasedObserverNotNotified ==
    /\ [](\A s \in SubIds :
             subs[s].closed => subs[s].received = <<>> /\ s \notin Range(observers))
    /\ [][\A s \in SubIds : subs[s].closed => subs'[s].closed]_vars
    /\ [][(pushed' # pushed /\ \A s \in SubIds : subs[s].closed) =>
             authToken' = authToken]_vars

\* App was unmounted while its execute() was in flight; the token was pushed
\* after the release and reached no callback.
C5_Witness ==
    /\ app.state = "Unmounted"
    /\ \E s \in SubIds : subs[s].owner = "App" /\ subs[s].closed
    /\ \E c \in CallIds : calls[c].state = "fulfilled"
    /\ subjectValue \in Tokens
    /\ authToken = ""


\* C6: for every request and every authToken t at dispatch time: with t empty
\* the link adds no Authorization key and the forwarded headers are the
\* request's own; with t non-empty they are the request's headers with
\* Authorization set to exactly "Bearer " followed by t.
C6_LinkSetsBearerHeader ==
    [][Dispatching =>
          LET before == HeadersOf(operation')
              after == forwarded'.headers
          IN  IF authToken = ""
              THEN after = before
              ELSE /\ DOMAIN after = DOMAIN before \cup {"Authorization"}
                   /\ after["Authorization"] = "Bearer " \o authToken
                   /\ \A k \in DOMAIN before \ {"Authorization"} : after[k] = before[k]]_vars

\* A request that already carried an Authorization header was forwarded with
\* the bearer token in its place and its other header kept.
C6_Witness ==
    /\ operation.dispatched /\ forwarded.forwarded
    /\ operation.hasHeaders
    /\ operation.headers["Authorization"] = "Basic old"
    /\ forwarded.headers["Authorization"] = "Bearer T1"
    /\ forwarded.headers["Accept"] = "json"

\* C7: of two overlapping execute() calls, A started first and B second, with
\* B's endpoint result resolving before A's, the token read synchronously
\* after both have completed is A's (last resolution wins).
C7_LastResolutionWins ==
    \A a, b \in CallIds :
        ( /\ a < b
          /\ calls[a].state = "fulfilled" /\ calls[b].state = "fulfilled"
          /\ IndexOf(resolved, b) < IndexOf(resolved, a)
          /\ resolved[Len(resolved)] = a
          /\ \A c \in CallIds : calls[c].state \in {"fulfilled", "rejected"} )
        => authToken = calls[a].outcome.token

C9_NoPushNoHeader ==
    pushed = <<>> =>
        /\ authToken = ""
        /\ forwarded.forwarded =>
              /\ forwarded.headers = HeadersOf(operation)
              /\ (~operation.hasHeaders => "Authorization" \notin DOMAIN forwarded.headers)

\* App was mounted, unmounted and mounted again, a sign-in failed and nothing
\* was pushed; a request without headers was forwarded without Authorization.
C9_Witness ==
    /\ pushed = <<>>
    /\ Len(subs) = 2 /\ subs[1].closed /\ app.state = "Active"
    /\ \E c \in CallIds : calls[c].state = "rejected"
    /\ operation.dispatched /\ ~operation.hasHeaders
    /\ forwarded.forwarded /\ forwarded.headers = EmptyHeaders

\* C10: releasing a subscription that is already released changes neither the
\* observer list nor the subject's value nor authToken.
C10_SecondReleaseIsNoOp ==
    [][\A s \in SubIds :
          (subs[s].closed /\ ~subs[s].again /\ subs'[s].again) =>
              /\ UNCHANGED <<observers, subjectValue, authToken, pushed>>
              /\ \A t \in SubIds \ {s} : subs'[t] = subs[t]]_vars

\* A handle was released twice while another observer stayed subscribed.
C10_Witness ==
    /\ \E s \in SubIds : subs[s].closed /\ subs[s].again
    /\ observers # <<>>


\* The observers registered on the subject by App's effect.
AppObservers == {s \in Range(observers) : subs[s].owner = "App"}

\* C11: over every sequence of mounts and unmounts of App, each effect run
\* creates its own subscription and the cleanup releases that subscription,
\* once: App has exactly one observer registered while it is active (its
\* effect has run), none while it is not, and no registration survives an
\* unmount.
C11_OneAppObserverWhileActive ==
    /\ app.state = "Active" =>
          /\ app.sub \in SubIds
          /\ ~subs[app.sub].closed
          /\ AppObservers = {app.sub}
    /\ app.state # "Active" => AppObservers = {}
    /\ \A s \in SubIds :
          subs[s].owner = "App" =>
              /\ ~subs[s].again
              /\ (subs[s].closed <=> s # app.sub)

\* App is active for the second time: its first subscription is released and
\* the second one is the only App observer.
C11_Witness ==
    /\ Len(subs) = 2
    /\ subs[1].owner = "App" /\ subs[1].closed
    /\ subs[2].owner = "App" /\ ~subs[2].closed
    /\ app = [state |-> "Active", sub |-> 2]
    /\ observers = <<2>>


\* The token an Authorization header carries as a bearer, "" if it carries none.
BearerOf(headers) ==
    IF /\ "Authorization" \in DOMAIN headers
       /\ \E t \in Tokens : headers["Authorization"] = "Bearer " \o t
    THEN CHOOSE t \in Tokens : headers["Authorization"] = "Bearer " \o t
    ELSE ""

\* C12: the link caches no header: a request dispatched after authToken has
\* changed since the previous request carries "Bearer " followed by the
\* token held at its own dispatch, whatever the previous request carried.
C12_HeaderReadAtEachDispatch ==
    [][(Dispatching /\ forwarded.forwarded /\ BearerOf(forwarded.headers) # authToken) =>
          /\ "Authorization" \in DOMAIN forwarded'.headers
          /\ forwarded'.headers["Authorization"] = "Bearer " \o authToken
          /\ sent'.headers = forwarded'.headers]_vars

\* A request went out with "Bearer T1" (or, T1 being empty, without a bearer),
\* authToken has changed since, and a second request can be dispatched.
C12_Witness ==
    /\ forwarded.forwarded /\ sent.sent
    /\ BearerOf(forwarded.headers) # authToken
    /\ BearerOf(forwarded.headers) = "T1"
    /\ authToken = "T2"
    /\ app.state \in {"Rendered", "Active"} /\ microtasks = <<>>

\* C13: a dispatch through the auth link leaves authToken, the subject's
\* value, its observers and the subscriptions as they were; authToken is
\* written only by a subscription callback at a push and by the delivery at
\* subscribe().
C13_DispatchLeavesStore ==
    /\ [][(Dispatching \/ operation' # operation \/ forwarded' # forwarded \/ sent' # sent) =>
             UNCHANGED <<authToken, subjectValue, observers, subs, pushed>>]_vars
    /\ [][authToken' # authToken =>
             \/ /\ Len(pushed') = Len(pushed) + 1
                /\ observers # <<>>
                /\ authToken' = pushed'[Len(pushed')]
             \/ /\ Len(subs') = Len(subs) + 1
                /\ authToken' = subjectValue]_vars

\* A request was dispatched with the token in place while an observer was
\* registered and the subject held the same token.
C13_Witness ==
    /\ forwarded.forwarded
    /\ BearerOf(forwarded.headers) = authToken
    /\ authToken \in Tokens /\ subjectValue = authToken
    /\ observers # <<>>


\* C14: a push is never deduplicated: every execute() that fulfils makes one
\* push, and a push invokes the callback of every registered observer exactly
\* once with the pushed value, also when that value is the one already held.
C14_EqualValueStillNotifies ==
    /\ [][\A c \in CallIds :
             (calls[c].state = "queued" /\ calls'[c].state = "fulfilled") =>
                 pushed' = Append(pushed, calls[c].outcome.token)]_vars
    /\ [][Len(pushed') = Len(pushed) + 1 =>
             \A s \in SubIds :
                 subs'[s].received =
                    IF ~subs[s].closed
                    THEN Append(subs[s].received, pushed'[Len(pushed')])
                    ELSE subs[s].received]_vars

\* The same token was pushed twice and a subscribed observer was invoked
\* with it both times.
C14_Witness ==
    /\ Len(pushed) = 2 /\ pushed[1] = pushed[2]
    /\ \E s \in SubIds :
          /\ ~subs[s].closed
          /\ Len(subs[s].received) = 3
          /\ subs[s].received[2] = pushed[1]
          /\ subs[s].received[3] = pushed[2]


\* C15: the transport only ever sends a request that has passed through the
\* auth link, once, before the send: what is sent is what authLink forwarded,
\* decorated with the token held at the dispatch.
C15_AuthLinkBeforeTransport ==
    /\ [](sent.sent =>
             /\ sent.via = <<"authLink">>
             /\ operation.dispatched /\ forwarded.forwarded
             /\ sent.headers = forwarded.headers)
    /\ [][(operation' # operation \/ sent' # sent) =>
             /\ sent'.sent
             /\ sent'.via = <<"authLink">>
             /\ BearerOf(sent'.headers) = authToken
             /\ \A k \in DOMAIN HeadersOf(operation') \ {"Authorization"} :
                   sent'.headers[k] = operation'.headers[k]]_vars

\* A request that came without headers went to the transport through the
\* auth link with the bearer token.
C15_Witness ==
    /\ operation.dispatched /\ ~operation.hasHeaders
    /\ sent.sent /\ sent.via = <<"authLink">>
    /\ DOMAIN sent.headers = {"Authorization"}
    /\ sent.headers["Authorization"] = "Bearer T2"


ObtainedTokens == {calls[c].outcome.token : c \in {d \in CallIds : calls[d].state = "fulfilled"}}

\* C17: authToken is always the empty string or a token that a fulfilled
\* execute() obtained from the endpoint and pushed; every bearer the link has
\* attached is such a token, never one of a failed or still pending call.
C17_TokenComesFromFulfilledCall ==
    /\ authToken = "" \/ (authToken \in ObtainedTokens /\ authToken \in Range(pushed))
    /\ Range(pushed) = ObtainedTokens
    /\ forwarded.forwarded =>
          \/ forwarded.headers = HeadersOf(operation)
          \/ /\ forwarded.headers["Authorization"] \in {"Bearer " \o t : t \in ObtainedTokens}
             /\ sent.headers = forwarded.headers

\* T1 is held and was attached to a request while another call has settled
\* with T2 and its continuation has not run yet.
C17_Witness ==
    /\ authToken = "T1"
    /\ forwarded.forwarded /\ BearerOf(forwarded.headers) = "T1"
    /\ ObtainedTokens = {"T1"}
    /\ \E c \in CallIds : calls[c].state = "queued" /\ calls[c].outcome.token = "T2"


\* C18: under the event loop's draining of microtasks, an execute() whose
\* endpoint call has settled completes, and it completes in a state where, if
\* it settled with a token and App is subscribed, it has fulfilled and
\* authToken is that token.  An execute() still waiting
\* for the endpoint blocks neither a dispatch nor the start of another
\* execute().
C18_SettledExecuteCompletes ==
    /\ \A c \in 1 .. MaxCalls :
          (c \in CallIds /\ calls[c].state = "queued")
             ~> (/\ c \in CallIds /\ calls[c].state \in {"fulfilled", "rejected"}
                 /\ (calls[c].outcome.ok /\ app.state = "Active") =>
                       /\ calls[c].state = "fulfilled"
                       /\ authToken = calls[c].outcome.token)
    /\ []((app.state = "Active" /\ microtasks = <<>>
              /\ \E c \in CallIds : calls[c].state = "awaiting") =>
             /\ \A ctx \in Contexts : ENABLED request(ctx)
             /\ Len(calls) < MaxCalls => ENABLED onSubmit)

\* Two calls overlapped while App stayed subscribed: the first is still
\* waiting for the endpoint, the second has fulfilled and authToken is its
\* token.
C18_Witness ==
    /\ app.state = "Active"
    /\ Len(calls) = 2
    /\ calls[1].state = "awaiting"
    /\ calls[2].state = "fulfilled"
    /\ authToken = calls[2].outcome.token


TypeOK ==
    /\ authToken \in Tokens \cup {""}
    /\ subjectValue \in Tokens \cup {""}
    /\ Range(observers) \subseteq SubIds
    /\ Len(subs) <= MaxSubs
    /\ Len(calls) <= MaxCalls
    /\ app.state \in {"Unmounted", "Rendered", "Active"}
    /\ Range(microtasks) \subseteq CallIds
====
